---------------------------- MODULE Spec2Model ----------------------------
(***************************************************************************)
(* A model of htmldocx/h2d.py: the HtmlToDocx engine that walks a          *)
(* BeautifulSoup tree and writes python-docx paragraphs, runs and tables.  *)
(*                                                                         *)
(* Text is a sequence of one-character strings.  An HTML node is a record  *)
(* [name, attrs, children, text]; a text node (NavigableString) has name   *)
(* "#text".  The python-docx object graph is a heap: `conts` maps a        *)
(* container id (0 is the document body, the others are table cells) to    *)
(* its sequence of blocks, `tables` holds the grid of every table, and     *)
(* `engines` holds the fields of every live HtmlToDocx instance.           *)
(***************************************************************************)
EXTENDS Integers, Sequences, FiniteSets, TLC

(***************************************************************************)
(* Bounds of the model.                                                    *)
(***************************************************************************)
\* to_roman is applied to every n in -NegRange .. MaxRoman
NegRange == 3
MaxRoman == 4003
\* list markers are computed for levels 0..MaxLevel, counters 1..MaxCounter
MaxLevel == 4
MaxCounter == 28
\* tables: rows per table, cells per row, the largest rowspan/colspan
\* attribute, and the largest sum of colspans in a row
MaxRows == 3
MaxCells == 3
MaxSpan == 2
MaxWidth == 3
MaxItems == 3
MaxBlocks == 2
MaxCalls == 2

(***************************************************************************)
(* Program constants (lengths in hundredths of an inch).                   *)
(***************************************************************************)
LIST_INDENT == 50
MAX_INDENT == 550
DEFAULT_TABLE_STYLE == "TableGrid"
DEFAULT_PARAGRAPH_STYLE == "None"
\* the exclusive upper limit of to_roman's range
RomanLimit == 4000

(***************************************************************************)
(* Text helpers: Python's str(), chr(ord("a") + k), str.strip, "".join.    *)
(***************************************************************************)
Digits == <<"0", "1", "2", "3", "4", "5", "6", "7", "8", "9">>

RECURSIVE NatStr(_)
NatStr(n) ==
  IF n < 10 THEN <<Digits[n + 1]>>
  ELSE NatStr(n \div 10) \o <<Digits[(n % 10) + 1]>>

\* str(n) for an int
DecimalStr(n) == IF n < 0 THEN <<"-">> \o NatStr(0 - n) ELSE NatStr(n)

\* the characters from code point ord("a") = 97 on, as far as the model needs
\* them: "a".."z" and the ASCII characters that follow "z"
FromLowerA ==
  <<"a", "b", "c", "d", "e", "f", "g", "h", "i", "j", "k", "l", "m",
    "n", "o", "p", "q", "r", "s", "t", "u", "v", "w", "x", "y", "z",
    "{", "|", "}", "~">>

\* chr(ord("a") + k) for 0 <= k < 30
ChrFromA(k) == FromLowerA[k + 1]

Whitespace == {" ", "\t", "\n"}

RECURSIVE LStrip(_)
LStrip(s) ==
  IF s = <<>> THEN s
  ELSE IF Head(s) \in Whitespace THEN LStrip(Tail(s)) ELSE s

RECURSIVE RStrip(_)
RStrip(s) ==
  IF s = <<>> THEN s
  ELSE IF s[Len(s)] \in Whitespace THEN RStrip(SubSeq(s, 1, Len(s) - 1)) ELSE s

\* variant of Strip: the text as it is
Strip_Verbatim(s) == s

\* str.strip()
Strip(s) == RStrip(LStrip(s))

RECURSIVE Join(_)
Join(ss) == IF ss = <<>> THEN <<>> ELSE Head(ss) \o Join(Tail(ss))

(***************************************************************************)
(* to_roman                                                                *)
(***************************************************************************)
roman_map ==
  << <<1000, <<"m">> >>, <<900, <<"c", "m">> >>, <<500, <<"d">> >>,
     <<400, <<"c", "d">> >>, <<100, <<"c">> >>, <<90, <<"x", "c">> >>,
     <<50, <<"l">> >>, <<40, <<"x", "l">> >>, <<10, <<"x">> >>,
     <<9, <<"i", "x">> >>, <<5, <<"v">> >>, <<4, <<"i", "v">> >>,
     <<1, <<"i">> >> >>

\* variant of RomanInRange: 4000 taken for a numeral
RomanInRange_Through4000(n) == 1 <= n /\ n <= RomanLimit

\* `1 <= n < 4000`
RomanInRange(n) == 1 <= n /\ n < RomanLimit

\* `while n >= value`
RomanWhileCond(n, idx) == n >= roman_map[idx][1]

\* the for/while nest, from entry idx of roman_map on
RECURSIVE RomanLoop(_, _, _)
RomanLoop(n, idx, result) ==
  IF idx > Len(roman_map) THEN Join(result)
  ELSE IF RomanWhileCond(n, idx)
       THEN RomanLoop(n - roman_map[idx][1], idx, Append(result, roman_map[idx][2]))
       ELSE RomanLoop(n, idx + 1, result)

to_roman(n) == IF ~RomanInRange(n) THEN DecimalStr(n) ELSE RomanLoop(n, 1, <<>>)

(***************************************************************************)
(* The BeautifulSoup tree.  Attribute values are text, as in the markup.   *)
(***************************************************************************)
TextName == "#text"

Elem(name, attrs, children) ==
  [name |-> name, attrs |-> attrs, children |-> children, text |-> <<>>]

Text(chars) == [name |-> TextName, attrs |-> {}, children |-> <<>>, text |-> chars]

\* isinstance(node, NavigableString)
IsString(node) == node.name = TextName

\* `key in tag.attrs`
HasAttr(node, key) == \E a \in node.attrs : a[1] = key

\* tag.get(key, default): the attribute's text, or the default
GetAttr(node, key, default) ==
  IF HasAttr(node, key) THEN (CHOOSE a \in node.attrs : a[1] = key)[2] ELSE default

\* int(text) of an attribute: surrounding whitespace and one sign are allowed,
\* anything but decimal digits raises ValueError
RECURSIVE DigitsValue(_, _)
DigitsValue(s, acc) ==
  IF s = <<>> THEN acc
  ELSE DigitsValue(Tail(s),
         10 * acc + ((CHOOSE d \in 1..10 : Digits[d] = Head(s)) - 1))

AllDigits(s) == s # <<>> /\ \A i \in 1..Len(s) : \E d \in 1..10 : Digits[d] = s[i]

PyInt(text) ==
  LET t == Strip(text)
      neg == t # <<>> /\ Head(t) = "-"
      body == IF t # <<>> /\ Head(t) \in {"-", "+"} THEN Tail(t) ELSE t
  IN IF AllDigits(body)
     THEN [ok |-> TRUE, val |-> IF neg THEN 0 - DigitsValue(body, 0) ELSE DigitsValue(body, 0)]
     ELSE [ok |-> FALSE, val |-> 0]

\* int(cell.get(key, 1))
SpanAttr(cell, key) ==
  IF HasAttr(cell, key) THEN PyInt(GetAttr(cell, key, <<>>)) ELSE [ok |-> TRUE, val |-> 1]

\* tag.get_text(strip=True): every string below the node, stripped, the empty
\* ones left out, joined with nothing between them.  tag.get_text(): every
\* string below the node as it is.
RECURSIVE GetTextOfSeq(_, _)
GetText(node, strip) ==
  IF IsString(node) THEN (IF strip THEN Strip(node.text) ELSE node.text)
  ELSE GetTextOfSeq(node.children, strip)
GetTextOfSeq(nodes, strip) ==
  IF nodes = <<>> THEN <<>>
  ELSE GetText(Head(nodes), strip) \o GetTextOfSeq(Tail(nodes), strip)

\* soup.find('body'): the first element named body in document order, or <<>>
RECURSIVE FindBody(_)
FindBody(nodes) ==
  IF nodes = <<>> THEN <<>>
  ELSE LET n == Head(nodes)
       IN IF n.name = "body" THEN <<n>>
          ELSE LET below == FindBody(n.children)
               IN IF below # <<>> THEN below ELSE FindBody(Tail(nodes))

font_styles ==
  [b |-> "bold", strong |-> "bold", em |-> "italic", i |-> "italic",
   u |-> "underline", s |-> "strike", sup |-> "superscript",
   sub |-> "subscript", th |-> "bold"]

font_names == [code |-> "Courier New", pre |-> "Courier New"]

(***************************************************************************)
(* The python-docx objects the engine writes.                              *)
(*   block      a paragraph (kind "p") or a table (kind "tbl", its grid in *)
(*              st.tables[tid])                                            *)
(*   run        text with font toggles; a run with a link is the run of a  *)
(*              w:hyperlink element and is not in paragraph.runs           *)
(*   table      rows x cols cells in row-major order, as Table._cells:     *)
(*              owner[idx + 1] is the index of the top-left cell of the    *)
(*              merged cell that covers position idx; the content of the   *)
(*              cell at index o is the container base + o                  *)
(***************************************************************************)
None == "None"

NewRun(text) == [text |-> text, fmt |-> {}, font |-> None, breaks |-> 0, link |-> <<>>]

\* container.add_paragraph(text) gives the paragraph one run when text is not
\* empty; lengths are -1 while unset
NewParagraph(text) ==
  [kind |-> "p", runs |-> IF text = <<>> THEN <<>> ELSE <<NewRun(text)>>,
   style |-> "Default", left_indent |-> -1, right_indent |-> -1,
   space_after |-> -1, align |-> None, shd |-> None, border |-> None, tid |-> 0]

TableBlock(tid) ==
  [kind |-> "tbl", runs |-> <<>>, style |-> "Default", left_indent |-> -1,
   right_indent |-> -1, space_after |-> -1, align |-> None, shd |-> None,
   border |-> None, tid |-> tid]

\* the styles of python-docx's default template that the engine names
KnownStyles ==
  {"Heading 1", "Heading 2", "Heading 3", "Heading 4", "Heading 5", "Heading 6",
   "Normal", "No Spacing", "TableGrid"}

Blocks(st, c) == st.conts[c + 1]

\* container.paragraphs: the indices of its paragraph blocks
ParagraphIdxs(st, c) == {n \in 1..Len(Blocks(st, c)) : Blocks(st, c)[n].kind = "p"}

\* container.paragraphs[-1]
LastParagraph(st, c) ==
  CHOOSE n \in ParagraphIdxs(st, c) : \A m \in ParagraphIdxs(st, c) : m <= n

\* container.add_paragraph(text): the new paragraph is the container's last block
add_paragraph(st, c, text) ==
  [st EXCEPT !.conts[c + 1] = Append(@, NewParagraph(text))]

LastBlock(st, c) == Len(Blocks(st, c))

\* paragraph.add_run(...): pref is <<container, block index>>
add_run(st, pref, run) ==
  [st EXCEPT !.conts[pref[1] + 1][pref[2]].runs = Append(@, run)]

\* paragraph.runs: the indices of the runs that are not inside a hyperlink
RunIdxs(st, pref) ==
  LET rs == Blocks(st, pref[1])[pref[2]].runs
  IN {n \in 1..Len(rs) : rs[n].link = <<>>}

Raise(st, exc) == [st EXCEPT !.err = exc]

Raised(st) == st.err # None

\* the parent handed to a handler: a container (a Document or a _Cell, by
\* st.ctype) or a Paragraph
ContainerParent(st, c) == [type |-> st.ctype[c + 1], cont |-> c, idx |-> 0]

ParagraphParent(pref) == [type |-> "Paragraph", cont |-> pref[1], idx |-> pref[2]]

\* the paragraph a handler writes a run to when it is given `parent`:
\* the parent itself, the parent's last paragraph, or a new one
TargetParagraph(st, parent) ==
  IF parent.type = "Paragraph" THEN [st |-> st, p |-> <<parent.cont, parent.idx>>]
  ELSE IF ParagraphIdxs(st, parent.cont) # {}
       THEN [st |-> st, p |-> <<parent.cont, LastParagraph(st, parent.cont)>>]
       ELSE LET s2 == add_paragraph(st, parent.cont, <<>>)
            IN [st |-> s2, p |-> <<parent.cont, LastBlock(s2, parent.cont)>>]

\* container.add_table(rows, cols): rows*cols new cells, each holding one empty
\* paragraph; a _Cell appends an empty paragraph after the table
add_table(st, c, rows, cols) ==
  LET tid == Len(st.tables) + 1
      base == Len(st.conts)
      n == rows * cols
      t == [rows |-> rows, cols |-> cols, base |-> base,
            owner |-> [p \in 1..n |-> p - 1], style |-> "Default", shd |-> <<>>]
      withCells == st.conts \o [p \in 1..n |-> <<NewParagraph(<<>>)>>]
      withTable == [withCells EXCEPT ![c + 1] =
                      IF st.ctype[c + 1] = "Document" THEN Append(@, TableBlock(tid))
                      ELSE Append(Append(@, TableBlock(tid)), NewParagraph(<<>>))]
  IN [st EXCEPT !.conts = withTable,
                !.ctype = @ \o [p \in 1..n |-> "Cell"],
                !.tables = Append(@, t)]

\* a Python list index: negative indices count from the end; -1 stands for
\* IndexError
PyIndex(len, k) ==
  IF 0 <= k /\ k < len THEN k
  ELSE IF k < 0 /\ 0 - len <= k THEN len + k
  ELSE -1

\* table.cell(row_idx, col_idx) is Table._cells[col_idx + row_idx * cols]:
\* the index of the cell object, or -1 for IndexError
TableCell(t, row_idx, col_idx) ==
  LET k == PyIndex(t.rows * t.cols, col_idx + (row_idx * t.cols))
  IN IF k = -1 THEN -1 ELSE t.owner[k + 1]

\* the grid positions a cell object covers, and its extents
CellRegion(t, o) == {p \in 0..(t.rows * t.cols - 1) : t.owner[p + 1] = o}
RowOf(t, p) == p \div t.cols
ColOf(t, p) == p % t.cols
SetMin(S) == CHOOSE x \in S : \A y \in S : x <= y
SetMax(S) == CHOOSE x \in S : \A y \in S : y <= x
CellTop(t, o) == SetMin({RowOf(t, p) : p \in CellRegion(t, o)})
CellBottom(t, o) == SetMax({RowOf(t, p) : p \in CellRegion(t, o)}) + 1
CellLeft(t, o) == SetMin({ColOf(t, p) : p \in CellRegion(t, o)})
CellRight(t, o) == SetMax({ColOf(t, p) : p \in CellRegion(t, o)}) + 1

\* _Cell.merge(other): the merged cell is the bounding rectangle of the two
\* cells.  InvalidSpanError when the two cells form an inverted L or a T, or
\* when a third merged cell crosses the rectangle's border.
MergeInvalid(t, a, b) ==
  LET topMost == IF CellTop(t, a) < CellTop(t, b) THEN a ELSE b
      lower == IF topMost = a THEN b ELSE a
      leftMost == IF CellLeft(t, a) < CellLeft(t, b) THEN a ELSE b
      righter == IF leftMost = a THEN b ELSE a
  IN \/ /\ CellTop(t, a) = CellTop(t, b)
        /\ CellBottom(t, a) - CellTop(t, a) # CellBottom(t, b) - CellTop(t, b)
     \/ /\ CellLeft(t, a) = CellLeft(t, b)
        /\ CellRight(t, a) - CellLeft(t, a) # CellRight(t, b) - CellLeft(t, b)
     \/ /\ CellTop(t, topMost) < CellTop(t, lower)
        /\ CellBottom(t, topMost) > CellBottom(t, lower)
     \/ /\ CellLeft(t, leftMost) < CellLeft(t, righter)
        /\ CellRight(t, leftMost) > CellRight(t, righter)

MergeBox(t, a, b) ==
  LET top == IF CellTop(t, a) < CellTop(t, b) THEN CellTop(t, a) ELSE CellTop(t, b)
      left == IF CellLeft(t, a) < CellLeft(t, b) THEN CellLeft(t, a) ELSE CellLeft(t, b)
      bottom == IF CellBottom(t, a) > CellBottom(t, b) THEN CellBottom(t, a) ELSE CellBottom(t, b)
      right == IF CellRight(t, a) > CellRight(t, b) THEN CellRight(t, a) ELSE CellRight(t, b)
  IN {p \in 0..(t.rows * t.cols - 1) :
        /\ top <= RowOf(t, p) /\ RowOf(t, p) < bottom
        /\ left <= ColOf(t, p) /\ ColOf(t, p) < right}

MergeCrosses(t, box) ==
  \E p \in box : \E q \in (0..(t.rows * t.cols - 1)) \ box : t.owner[p + 1] = t.owner[q + 1]

\* the content of the cells the merged cell swallows moves to its top-left
\* cell, unless a swallowed cell holds nothing but one empty paragraph
RECURSIVE MovedContent(_, _, _, _)
MovedContent(st, t, cells, acc) ==
  IF cells = {} THEN acc
  ELSE LET o == SetMin(cells)
           bs == st.conts[t.base + o + 1]
           empty == bs = <<NewParagraph(<<>>)>>
           kept == IF ~empty /\ acc # <<>> /\ acc[Len(acc)] = NewParagraph(<<>>)
                   THEN SubSeq(acc, 1, Len(acc) - 1) ELSE acc
       IN MovedContent(st, t, cells \ {o}, IF empty THEN acc ELSE kept \o bs)

merge(st, tid, a, b) ==
  LET t == st.tables[tid]
      box == MergeBox(t, a, b)
      top == SetMin(box)
      swallowed == {t.owner[p + 1] : p \in box} \ {top}
  IN IF MergeInvalid(t, a, b) \/ MergeCrosses(t, box) THEN Raise(st, "InvalidSpanError")
     ELSE [st EXCEPT
             !.tables[tid].owner = [p \in 1..Len(@) |-> IF (p - 1) \in box THEN top ELSE @[p]],
             !.conts[t.base + top + 1] = MovedContent(st, t, swallowed, @)]

(***************************************************************************)
(* HtmlToDocx.  st is the heap [conts, ctype, tables, engines, err]; e is   *)
(* the index in st.engines of the instance a method runs on (self).  A      *)
(* raised exception is st.err: every later statement is skipped.           *)
(***************************************************************************)
\* __init__; the fields set_initial_attrs creates are there from the start,
\* `ready` telling whether it has run (doc -1: no document, <<>>: None)
HtmlToDocx ==
  [options |-> [fix_html |-> TRUE, images |-> TRUE, tables |-> TRUE, styles |-> TRUE],
   table_style |-> DEFAULT_TABLE_STYLE,
   paragraph_style |-> DEFAULT_PARAGRAPH_STYLE,
   ready |-> FALSE,
   tags |-> [span |-> <<>>, list |-> <<>>],
   doc |-> -1, document |-> -1,
   bs |-> FALSE, include_images |-> FALSE, include_styles |-> FALSE,
   paragraph |-> <<>>, run |-> <<>>]

\* variant of set_initial_attrs: self.paragraph and self.run are left as the
\* last call set them
set_initial_attrs_KeepCurrent(st, e, document) ==
  LET fresh == Len(st.conts)
      s1 == IF document = -1
            THEN [st EXCEPT !.conts = Append(@, <<>>), !.ctype = Append(@, "Document")]
            ELSE st
      d == IF document = -1 THEN fresh ELSE document
      options == st.engines[e].options
  IN [s1 EXCEPT !.engines[e] =
        [@ EXCEPT !.ready = TRUE,
                  !.tags = [span |-> <<>>, list |-> <<>>],
                  !.doc = d,
                  !.bs = options.fix_html,
                  !.document = d,
                  !.include_images = options.images,
                  !.include_styles = options.styles]]

\* set_initial_attrs(document); document = -1 is None: a new Document()
set_initial_attrs(st, e, document) ==
  LET fresh == Len(st.conts)
      s1 == IF document = -1
            THEN [st EXCEPT !.conts = Append(@, <<>>), !.ctype = Append(@, "Document")]
            ELSE st
      d == IF document = -1 THEN fresh ELSE document
      options == st.engines[e].options
  IN [s1 EXCEPT !.engines[e] =
        [@ EXCEPT !.ready = TRUE,
                  !.tags = [span |-> <<>>, list |-> <<>>],
                  !.doc = d,
                  !.bs = options.fix_html,
                  !.document = d,
                  !.include_images = options.images,
                  !.include_styles = options.styles,
                  !.paragraph = <<>>,
                  !.run = <<>>]]

copy_settings_from(st, e, other) ==
  [st EXCEPT !.engines[e].table_style = st.engines[other].table_style,
             !.engines[e].paragraph_style = st.engines[other].paragraph_style]

\* `paragraph.style = name`: KeyError when the document has no such style
SetStyle(st, pref, name) ==
  IF name \notin KnownStyles THEN Raise(st, "KeyError")
  ELSE [st EXCEPT !.conts[pref[1] + 1][pref[2]].style = name]

\* apply_paragraph_style(style=None): writes to self.paragraph; on None that
\* is an AttributeError, a KeyError becomes a ValueError
apply_paragraph_style(st, e, style) ==
  LET eng == st.engines[e]
      name == IF style # None THEN style ELSE eng.paragraph_style
  IN IF name = None THEN st
     ELSE IF eng.paragraph = <<>> THEN Raise(st, "AttributeError")
     ELSE IF name \notin KnownStyles THEN Raise(st, "ValueError")
     ELSE SetStyle(st, eng.paragraph, name)

\* str.split(sep)
RECURSIVE Split(_, _, _)
Split(s, sep, cur) ==
  IF s = <<>> THEN <<cur>>
  ELSE IF Head(s) = sep THEN <<cur>> \o Split(Tail(s), sep, <<>>)
  ELSE Split(Tail(s), sep, Append(cur, Head(s)))

\* parse_dict_string: the declarations that hold a ':', as <<key, value>>
\* pairs in order; `ok` is FALSE when one of them splits into more than two
\* parts (dict() raises ValueError)
parse_dict_string(string) ==
  LET noSpace == SelectSeq(string, LAMBDA ch : ch # " ")
      parts == SelectSeq(Split(noSpace, ";", <<>>),
                         LAMBDA x : \E n \in 1..Len(x) : x[n] = ":")
      pairs == [n \in 1..Len(parts) |-> Split(parts[n], ":", <<>>)]
  IN [ok |-> \A n \in 1..Len(pairs) : Len(pairs[n]) = 2, pairs |-> pairs]

\* dict lookup: the last pair with the key wins
DictHas(pairs, key) == \E n \in 1..Len(pairs) : pairs[n][1] = key
DictGet(pairs, key) ==
  pairs[CHOOSE n \in 1..Len(pairs) :
          /\ pairs[n][1] = key
          /\ \A m \in 1..Len(pairs) : pairs[m][1] = key => m <= n][2]

\* add_styles_to_paragraph: text-align (margin-left is outside this model)
add_styles_to_paragraph(st, e, style) ==
  LET pref == st.engines[e].paragraph
      key == <<"t", "e", "x", "t", "-", "a", "l", "i", "g", "n">>
      align == DictGet(style, key)
      value == IF align = <<"c", "e", "n", "t", "e", "r">> THEN "CENTER"
               ELSE IF align = <<"r", "i", "g", "h", "t">> THEN "RIGHT"
               ELSE IF align = <<"j", "u", "s", "t", "i", "f", "y">> THEN "JUSTIFY"
               ELSE None
  IN IF DictHas(style, key) /\ value # None
     THEN [st EXCEPT !.conts[pref[1] + 1][pref[2]].align = value]
     ELSE st

\* handle_inline_style
handle_inline_style(st, e, element, parent) ==
  LET tp == TargetParagraph(st, parent)
      run == [NewRun(GetText(element, TRUE)) EXCEPT
                !.fmt = IF element.name \in DOMAIN font_styles
                        THEN {font_styles[element.name]} ELSE {},
                !.font = IF element.name \in DOMAIN font_names
                         THEN font_names[element.name] ELSE None]
  IN add_run(tp.st, tp.p, run)

\* handle_link: without href a plain run; with href a hyperlink element, the
\* last child of a new paragraph of the container or of the parent paragraph
handle_link(st, e, href, text, parent) ==
  IF href = <<>>
  THEN LET tp == TargetParagraph(st, parent)
       IN add_run(tp.st, tp.p, NewRun(text))
  ELSE LET s1 == IF parent.type = "Paragraph" THEN st
                 ELSE add_paragraph(st, parent.cont, <<>>)
           p == IF parent.type = "Paragraph" THEN <<parent.cont, parent.idx>>
                ELSE <<parent.cont, LastBlock(s1, parent.cont)>>
       IN add_run(s1, p, [NewRun(text) EXCEPT !.fmt = {"color 0000EE", "underline"},
                                              !.link = href])

\* the marker of a list item: `num_str` of an ol, `bullet` of a ul
ul_bullets == << <<"U+00E2", "U+20AC", "U+00A2">>, <<"o">>, <<"-">> >>

\* variant of ListMarker: letters at every level below the first
ListMarker_Letters(name, level, item_counter) ==
  IF name = "ol"
  THEN IF level = 0 THEN DecimalStr(item_counter) \o <<".">>
       ELSE <<ChrFromA(item_counter - 1), ".">>
  ELSE ul_bullets[(level % Len(ul_bullets)) + 1]

ListMarker(name, level, item_counter) ==
  IF name = "ol"
  THEN IF level = 0 THEN DecimalStr(item_counter) \o <<".">>
       ELSE IF level = 1 THEN <<ChrFromA(item_counter - 1), ".">>
       ELSE to_roman(item_counter) \o <<".">>
  ELSE ul_bullets[(level % Len(ul_bullets)) + 1]

\* left indent of a list item's paragraph
ListIndent(level) ==
  IF (level + 1) * LIST_INDENT < MAX_INDENT THEN (level + 1) * LIST_INDENT ELSE MAX_INDENT

\* variant of MalformedChildLevel: the level of the list it is a child of
MalformedChildLevel_Same(level) == level

\* the level handle_list gives a list that is a direct child of a list
MalformedChildLevel(level) == level + 1

\* the level _parse_list_item_content gives a list inside an li
NestedChildLevel(level) == level + 1

\* variant of NextCounter: the counter stays where it is
NextCounter_Frozen(name, item_counter) == item_counter

\* item_counter after an li
NextCounter(name, item_counter) == IF name = "ol" THEN item_counter + 1 ELSE item_counter

\* the default of handle_list's `start`, which every nested call takes
DefaultStart == 1

\* handle_table: collect the tr elements, with the name of each one's parent
RECURSIVE CollectRows(_)
CollectRows(children) ==
  IF children = <<>> THEN <<>>
  ELSE LET child == Head(children)
           here == IF IsString(child) THEN <<>>
                   ELSE IF child.name = "tr" THEN <<[row |-> child, parent |-> "table"]>>
                   ELSE IF child.name \in {"thead", "tbody", "tfoot"}
                        THEN LET trs == SelectSeq(child.children, LAMBDA n : n.name = "tr")
                             IN [n \in 1..Len(trs) |-> [row |-> trs[n], parent |-> child.name]]
                   ELSE <<>>
       IN here \o CollectRows(Tail(children))

\* row.find_all(['td', 'th'], recursive=False)
RowCells(row) == SelectSeq(row.children, LAMBDA n : n.name \in {"td", "th"})

\* current_row_cols: the sum of the row's colspans; -1 when int() raises
RECURSIVE RowCols(_)
RowCols(cells) ==
  IF cells = <<>> THEN 0
  ELSE LET cs == SpanAttr(Head(cells), "colspan")
           rest == RowCols(Tail(cells))
       IN IF ~cs.ok \/ rest = -1 THEN -1 ELSE cs.val + rest

ColsRaises(rows) == \E n \in 1..Len(rows) : RowCols(RowCells(rows[n].row)) = -1

\* variant of MoreCols: the width of the row at hand, whatever came before
MoreCols_Last(current_row_cols, max_cols) == current_row_cols

\* `if current_row_cols > max_cols: max_cols = current_row_cols`
MoreCols(current_row_cols, max_cols) ==
  IF current_row_cols > max_cols THEN current_row_cols ELSE max_cols

\* max_cols
RECURSIVE MaxCols(_, _)
MaxCols(rows, max_cols) ==
  IF rows = <<>> THEN max_cols
  ELSE LET current_row_cols == RowCols(RowCells(Head(rows).row))
       IN MaxCols(Tail(rows), MoreCols(current_row_cols, max_cols))

\* `while j < max_cols and grid_map[i][j] is not None: j += 1`
RECURSIVE SkipOccupied(_, _, _, _)
SkipOccupied(grid_map, i, j, max_cols) ==
  IF j < max_cols /\ <<i, j>> \in grid_map
  THEN SkipOccupied(grid_map, i, j + 1, max_cols)
  ELSE j

\* variant of ClipSpan: the declared span, unclipped
ClipSpan_Unclipped(origin, span, limit) == span

\* `if i + r_span > num_rows: r_span = num_rows - i`, and the same for c_span
ClipSpan(origin, span, limit) == IF origin + span > limit THEN limit - origin ELSE span

\* variant of MarkSpan: only the origin is set
MarkSpan_OriginOnly(grid_map, i, j, r_span, c_span, num_rows, max_cols) ==
  grid_map \cup {<<i, j>>}

\* the positions the loop at the end of the cell body sets to True
MarkSpan(grid_map, i, j, r_span, c_span, num_rows, max_cols) ==
  grid_map \cup {<<r, c>> \in (i..(i + r_span - 1)) \X (j..(j + c_span - 1)) :
                   r < num_rows /\ c < max_cols}

\* header styling: every run of the cell's paragraphs bold, one more w:shd
StyleHeaderCell(st, tid, o) ==
  LET c == st.tables[tid].base + o
  IN [st EXCEPT
        !.conts[c + 1] =
           [n \in 1..Len(@) |->
              IF @[n].kind = "p"
              THEN [@[n] EXCEPT !.runs =
                      [m \in 1..Len(@) |->
                         IF @[m].link = <<>> THEN [@[m] EXCEPT !.fmt = @ \cup {"bold"}]
                         ELSE @[m]]]
              ELSE @[n]],
        !.tables[tid].shd = Append(@, o)]

\* variant of NewChildParser: the cell is converted by the parser at hand
NewChildParser_Shared(st, e) == [st |-> st, id |-> e]

\* `child_parser = HtmlToDocx(); child_parser.copy_settings_from(self)`:
\* the heap with the new instance, and its index
NewChildParser(st, e) ==
  LET s1 == [st EXCEPT !.engines = Append(@, HtmlToDocx)]
      id == Len(s1.engines)
  IN [st |-> copy_settings_from(s1, id, e), id |-> id]

\* cell.decode_contents() parsed again by BeautifulSoup: the cell's children
DecodeContents(cell) == cell.children

\* the state of the loops of handle_table for the table `tid`
NewTableLoop(rows, max_cols, tid) ==
  [rows |-> rows, num_rows |-> Len(rows), max_cols |-> max_cols, tid |-> tid,
   grid_map |-> {}, i |-> 0, k |-> 0, j |-> 0,
   r_span |-> 0, c_span |-> 0, docx_cell |-> -1]

RECURSIVE _parse_elements(_, _, _, _)
RECURSIVE handle_list(_, _, _, _, _, _)
RECURSIVE _parse_list_item_content(_, _, _, _, _)
RECURSIVE TableLoop(_, _, _)
RECURSIVE add_html_to_cell(_, _, _, _)

\* f'Heading {level}' of a heading tag
HeadingStyle ==
  [h1 |-> "Heading 1", h2 |-> "Heading 2", h3 |-> "Heading 3",
   h4 |-> "Heading 4", h5 |-> "Heading 5", h6 |-> "Heading 6"]

\* handle_paragraph
handle_paragraph(st, e, p_tag, parent) ==
  LET doc == st.engines[e].doc
      s1 == add_paragraph(st, doc, <<>>)
      p == <<doc, LastBlock(s1, doc)>>
      s2 == IF p_tag.name # "p"
            THEN LET styled == SetStyle(s1, p, HeadingStyle[p_tag.name])
                 IN IF Raised(styled) THEN apply_paragraph_style(s1, e, None)
                    ELSE [styled EXCEPT !.conts[p[1] + 1][p[2]].space_after = 6]
            ELSE LET styled == apply_paragraph_style(s1, e, None)
                 IN IF Raised(styled) THEN styled
                    ELSE [styled EXCEPT !.conts[p[1] + 1][p[2]].space_after = 2]
      s3 == IF Raised(s2) \/ ~HasAttr(p_tag, "style") THEN s2
            ELSE LET style == parse_dict_string(GetAttr(p_tag, "style", <<>>))
                 IN IF ~style.ok THEN Raise(s2, "ValueError")
                    ELSE add_styles_to_paragraph(
                           [s2 EXCEPT !.engines[e].paragraph = p], e, style.pairs)
  IN IF Raised(s3) THEN s3
     ELSE _parse_elements(s3, e, p_tag.children, ParagraphParent(p))

\* handle_blockquote
handle_blockquote(st, e, bq_tag, parent) ==
  LET doc == st.engines[e].doc
      s1 == add_paragraph(st, doc, <<>>)
      p == <<doc, LastBlock(s1, doc)>>
      s2 == [s1 EXCEPT !.conts[p[1] + 1][p[2]] =
               [@ EXCEPT !.left_indent = 50, !.right_indent = 50, !.shd = "F0F0F0"]]
  IN _parse_elements(s2, e, bq_tag.children, ParagraphParent(p))

\* handle_pre
handle_pre(st, e, pre_tag, parent) ==
  LET doc == st.engines[e].doc
      s1 == add_paragraph(st, doc, <<>>)
      p == <<doc, LastBlock(s1, doc)>>
      s2 == SetStyle(s1, p, "No Spacing")
  IN IF Raised(s2) THEN s2
     ELSE add_run([s2 EXCEPT !.conts[p[1] + 1][p[2]].shd = "F5F5F5"], p,
                  [NewRun(GetText(pre_tag, FALSE)) EXCEPT !.font = "Courier New"])

\* handle_hr
handle_hr(st, e, parent) ==
  LET doc == st.engines[e].doc
      s1 == add_paragraph(st, doc, <<>>)
  IN [s1 EXCEPT !.conts[doc + 1][LastBlock(s1, doc)].border = "bottom"]

\* the `br` branch of _parse_elements
HandleBr(st, parent) ==
  IF parent.type = "Paragraph" THEN Raise(st, "AttributeError")
  ELSE LET s1 == IF parent.type = "Document" \/ ParagraphIdxs(st, parent.cont) = {}
                 THEN add_paragraph(st, parent.cont, <<>>) ELSE st
           p == IF parent.type = "Document" \/ ParagraphIdxs(st, parent.cont) = {}
                THEN <<parent.cont, LastBlock(s1, parent.cont)>>
                ELSE <<parent.cont, LastParagraph(st, parent.cont)>>
       IN IF RunIdxs(s1, p) = {} THEN s1
          ELSE [s1 EXCEPT !.conts[p[1] + 1][p[2]].runs[SetMax(RunIdxs(s1, p))].breaks = @ + 1]

\* the NavigableString branch of _parse_elements
HandleString(st, element, parent) ==
  IF Strip(element.text) = <<>> THEN st
  ELSE LET tp == TargetParagraph(st, parent)
       IN add_run(tp.st, tp.p, NewRun(Strip(element.text)))

\* variant of MergeEnd: the last row of the span in the origin's column
MergeEnd_SameColumn(i, j, r_span, c_span) == <<i + r_span - 1, j>>

\* the cell that closes the merge: `table.cell(i + r_span - 1, j + c_span - 1)`
MergeEnd(i, j, r_span, c_span) == <<i + r_span - 1, j + c_span - 1>>

\* one cell of handle_table's inner loop, first part: the cursor, the clipped
\* spans, the document cell, and the cell's content converted by a parser of
\* its own.  Gives the heap and the loop state after it.
ConvertCell(st, e, tl, cell) ==
  LET j == SkipOccupied(tl.grid_map, tl.i, tl.j, tl.max_cols)
      rs == SpanAttr(cell, "rowspan")
      cs == SpanAttr(cell, "colspan")
      r_span == ClipSpan(tl.i, rs.val, tl.num_rows)
      c_span == ClipSpan(j, cs.val, tl.max_cols)
      docx_cell == TableCell(st.tables[tl.tid], tl.i, j)
      child == NewChildParser(st, e)
  IN IF ~rs.ok \/ ~cs.ok
     THEN [st |-> Raise(st, "ValueError"), tl |-> [tl EXCEPT !.j = j]]
     ELSE IF docx_cell = -1
     THEN [st |-> Raise(st, "IndexError"),
           tl |-> [tl EXCEPT !.j = j, !.r_span = r_span, !.c_span = c_span]]
     ELSE [st |-> add_html_to_cell(child.st, child.id, DecodeContents(cell),
                                   st.tables[tl.tid].base + docx_cell),
           tl |-> [tl EXCEPT !.j = j, !.r_span = r_span, !.c_span = c_span,
                             !.docx_cell = docx_cell]]

\* second part: header styling, the merge, and the marking of grid_map
FinishCell(st, tl, cell, is_header_row) ==
  LET s3 == IF is_header_row \/ cell.name = "th"
            THEN StyleHeaderCell(st, tl.tid, tl.docx_cell) ELSE st
      end == MergeEnd(tl.i, tl.j, tl.r_span, tl.c_span)
      end_cell == TableCell(s3.tables[tl.tid], end[1], end[2])
      s4 == IF tl.r_span > 1 \/ tl.c_span > 1
            THEN IF end_cell = -1 THEN Raise(s3, "IndexError")
                 ELSE merge(s3, tl.tid, tl.docx_cell, end_cell)
            ELSE s3
  IN [st |-> s4,
      tl |-> IF Raised(s4) THEN tl
             ELSE [tl EXCEPT
                     !.k = @ + 1,
                     !.grid_map = MarkSpan(@, tl.i, tl.j, tl.r_span, tl.c_span,
                                           tl.num_rows, tl.max_cols)]]

\* the whole body of the inner loop for one cell
PlaceCell(st, e, tl, cell, is_header_row) ==
  LET c == ConvertCell(st, e, tl, cell)
  IN IF Raised(c.st) THEN c ELSE FinishCell(c.st, c.tl, cell, is_header_row)

\* `for i, row in enumerate(rows)`: the next row, with j = 0
NextRow(tl) == [tl EXCEPT !.i = @ + 1, !.k = 0, !.j = 0]

\* the cells of the row the loop is in, and whether it is a header row
CurrentCells(tl) == RowCells(tl.rows[tl.i + 1].row)
IsHeaderRow(tl) == tl.rows[tl.i + 1].parent = "thead"

\* the two loops of handle_table, run to their end
TableLoop(st, e, tl) ==
  IF Raised(st) \/ tl.i >= tl.num_rows THEN st
  ELSE IF tl.k >= Len(CurrentCells(tl)) THEN TableLoop(st, e, NextRow(tl))
  ELSE LET r == PlaceCell(st, e, tl, CurrentCells(tl)[tl.k + 1], IsHeaderRow(tl))
       IN TableLoop(r.st, e, r.tl)

\* handle_table up to the loops: the rows, max_cols, the table and its style.
\* `made` tells whether a table was created.
BeginTable(st, e, table_tag) ==
  LET rows == CollectRows(table_tag.children)
      max_cols == MaxCols(rows, 0)
      doc == st.engines[e].doc
      s1 == add_table(st, doc, Len(rows), max_cols)
      tid == Len(s1.tables)
      s2 == [s1 EXCEPT !.tables[tid].style = st.engines[e].table_style]
  IN IF rows = <<>> THEN [st |-> st, made |-> FALSE, tl |-> NewTableLoop(rows, 0, 0)]
     ELSE IF ColsRaises(rows)
     THEN [st |-> Raise(st, "ValueError"), made |-> FALSE, tl |-> NewTableLoop(rows, 0, 0)]
     ELSE IF max_cols = 0 THEN [st |-> st, made |-> FALSE, tl |-> NewTableLoop(rows, 0, 0)]
     ELSE [st |-> s2, made |-> TRUE, tl |-> NewTableLoop(rows, max_cols, tid)]

\* handle_table
handle_table(st, e, table_tag, parent) ==
  LET b == BeginTable(st, e, table_tag)
  IN IF b.made THEN TableLoop(b.st, e, b.tl) ELSE b.st

\* handle_list
handle_list(st, e, list_tag, children, level, item_counter) ==
  IF children = <<>> \/ Raised(st) THEN st
  ELSE LET child == Head(children)
           doc == st.engines[e].doc
       IN IF IsString(child) THEN handle_list(st, e, list_tag, Tail(children), level, item_counter)
          ELSE IF child.name = "li"
          THEN LET s1 == add_paragraph(st, doc, <<>>)
                   p == <<doc, LastBlock(s1, doc)>>
                   s2 == [s1 EXCEPT !.conts[doc + 1][p[2]].left_indent = ListIndent(level)]
                   s3 == add_run(s2, p, NewRun(ListMarker(list_tag.name, level, item_counter)
                                               \o <<"\t">>))
                   s4 == _parse_list_item_content(s3, e, child.children, p, level)
               IN handle_list(s4, e, list_tag, Tail(children), level,
                              NextCounter(list_tag.name, item_counter))
          ELSE IF child.name \in {"ul", "ol"}
          THEN handle_list(
                 handle_list(st, e, child, child.children, MalformedChildLevel(level),
                             DefaultStart),
                 e, list_tag, Tail(children), level, item_counter)
          ELSE handle_list(st, e, list_tag, Tail(children), level, item_counter)

\* _parse_list_item_content
_parse_list_item_content(st, e, children, p, level) ==
  IF children = <<>> \/ Raised(st) THEN st
  ELSE LET child == Head(children)
           s1 == IF IsString(child)
                 THEN IF Strip(child.text) # <<>> THEN add_run(st, p, NewRun(Strip(child.text)))
                      ELSE st
                 ELSE IF child.name \in {"ul", "ol"}
                 THEN handle_list(st, e, child, child.children, NestedChildLevel(level),
                                  DefaultStart)
                 ELSE IF child.name \in DOMAIN font_styles \/ child.name \in DOMAIN font_names
                 THEN handle_inline_style(st, e, child, ParagraphParent(p))
                 ELSE IF child.name = "a"
                 THEN handle_link(st, e, GetAttr(child, "href", <<>>), GetText(child, TRUE),
                                  ParagraphParent(p))
                 ELSE IF child.name = "br"
                 THEN add_run(st, p, [NewRun(<<>>) EXCEPT !.breaks = 1])
                 ELSE add_run(st, p, NewRun(GetText(child, TRUE)))
       IN _parse_list_item_content(s1, e, Tail(children), p, level)

\* urlparse(url) on a URL given as <<scheme, "://", netloc, "/", segment, ...>>;
\* without "://" the whole text is the path
urlparse(url) ==
  IF Len(url) >= 2 /\ url[2] = "://"
  THEN LET has_netloc == Len(url) >= 3 /\ url[3] # "/"
       IN [scheme |-> <<url[1]>>,
           netloc |-> IF has_netloc THEN <<url[3]>> ELSE <<>>,
           path |-> SubSeq(url, IF has_netloc THEN 4 ELSE 3, Len(url))]
  ELSE [scheme |-> <<>>, netloc |-> <<>>, path |-> url]

\* os.path.basename(path): what follows the last "/"
RECURSIVE basename(_)
basename(path) ==
  IF path = <<>> \/ path[Len(path)] = "/" THEN <<>>
  ELSE Append(basename(SubSeq(path, 1, Len(path) - 1)), path[Len(path)])

get_filename_from_url(url) == basename(urlparse(url).path)

is_url(url) ==
  urlparse(url).scheme # <<>> /\ urlparse(url).netloc # <<>> /\ urlparse(url).path # <<>>

\* the world outside: the URLs that answer with image bytes (urlopen raises
\* URLError for every other one) and the local files that exist
Served == { <<"http", "://", "ok", "/", "a.png">> }
LocalFiles == { <<"pic.png">> }

\* fetch_image: the bytes, or None on URLError
fetch_image(url) == IF url \in Served THEN url ELSE None

\* a run that holds a picture
PictureRun(image) == [NewRun(<<>>) EXCEPT !.fmt = {"picture"}]

\* handle_img
handle_img(st, e, attrs, parent) ==
  LET src == IF \E a \in attrs : a[1] = "src"
             THEN (CHOOSE a \in attrs : a[1] = "src")[2] ELSE <<>>
      src_is_url == is_url(src)
      image == IF src_is_url THEN fetch_image(src)
               ELSE IF src \in LocalFiles THEN src ELSE None
      text == IF src_is_url THEN <<"<image: ">> \o src \o <<">">>
              ELSE <<"<image: ">> \o get_filename_from_url(src) \o <<">">>
  IN IF ~st.engines[e].include_images \/ src = <<>> THEN st
     ELSE IF image # None
     THEN IF parent.type = "Paragraph" THEN st
          ELSE LET s1 == add_paragraph(st, parent.cont, <<>>)
               IN add_run(s1, <<parent.cont, LastBlock(s1, parent.cont)>>, PictureRun(image))
     ELSE IF parent.type = "Paragraph" THEN st
          ELSE add_paragraph(st, parent.cont, text)

\* _parse_elements
_parse_elements(st, e, elements, parent) ==
  IF elements = <<>> \/ Raised(st) THEN st
  ELSE LET element == Head(elements)
           name == element.name
           s1 == IF IsString(element) THEN HandleString(st, element, parent)
                 ELSE IF name = "table" THEN handle_table(st, e, element, parent)
                 ELSE IF name \in {"ul", "ol"}
                 THEN handle_list(st, e, element, element.children, 0, DefaultStart)
                 ELSE IF name \in {"p", "h1", "h2", "h3", "h4", "h5", "h6"}
                 THEN handle_paragraph(st, e, element, parent)
                 ELSE IF name = "blockquote" THEN handle_blockquote(st, e, element, parent)
                 ELSE IF name = "pre" THEN handle_pre(st, e, element, parent)
                 ELSE IF name = "hr" THEN handle_hr(st, e, parent)
                 ELSE IF name = "br" THEN HandleBr(st, parent)
                 ELSE IF name = "img" THEN handle_img(st, e, element.attrs, parent)
                 ELSE IF name \in DOMAIN font_styles \/ name \in DOMAIN font_names
                 THEN handle_inline_style(st, e, element, parent)
                 ELSE IF name = "a"
                 THEN handle_link(st, e, GetAttr(element, "href", <<>>),
                                  GetText(element, TRUE), parent)
                 ELSE _parse_elements(st, e, element.children, parent)
       IN _parse_elements(s1, e, Tail(elements), parent)

\* a Python value that is not a str, handed over as html: None, or bytes
\* holding markup
NoneHtml == <<[name |-> "#NoneType", attrs |-> {}, children |-> <<>>, text |-> <<>>]>>
BytesHtml(markup) == <<[name |-> "#bytes", attrs |-> {}, children |-> markup, text |-> <<>>]>>

\* isinstance(html, str)
IsStr(html) == html = <<>> \/ Head(html).name \notin {"#NoneType", "#bytes"}

\* BeautifulSoup(html, 'html.parser').contents: bytes are decoded and parsed
Soup(html) == IF IsStr(html) THEN html ELSE Head(html).children

\* run_process: BeautifulSoup raises TypeError on None; with fix-html off the
\* HTMLParser feed has no handler and writes nothing
run_process(st, e, html) ==
  LET body == FindBody(Soup(html))
      elements == IF body # <<>> THEN body[1].children ELSE Soup(html)
  IN IF st.engines[e].bs
     THEN IF html = NoneHtml THEN Raise(st, "TypeError")
          ELSE _parse_elements(st, e, elements, ContainerParent(st, st.engines[e].doc))
     ELSE st

\* `if not self.doc.paragraphs: self.doc.add_paragraph('')`
EndWithParagraph(st, e) ==
  IF Raised(st) THEN st
  ELSE IF ParagraphIdxs(st, st.engines[e].doc) = {}
  THEN add_paragraph(st, st.engines[e].doc, <<>>)
  ELSE st

\* add_html_to_cell: the cell is emptied, converted into, and left with at
\* least one paragraph
add_html_to_cell(st, e, html, cell) ==
  IF st.ctype[cell + 1] # "Cell" THEN Raise(st, "ValueError")
  ELSE EndWithParagraph(
         run_process(set_initial_attrs([st EXCEPT !.conts[cell + 1] = <<>>], e, cell),
                     e, html),
         e)

\* add_html_to_document: `document` is a container id
add_html_to_document(st, e, html, document) ==
  IF ~IsStr(html) THEN Raise(st, "ValueError")
  ELSE IF st.ctype[document + 1] \notin {"Document", "Cell"} THEN Raise(st, "ValueError")
  ELSE run_process(set_initial_attrs(st, e, document), e, html)

\* parse_html_string: the conversion goes to a new Document, the engine's doc
parse_html_string(st, e, html) ==
  run_process(set_initial_attrs(st, e, -1), e, html)

(***************************************************************************)
(* The inputs.                                                             *)
(***************************************************************************)
Chars(str) == <<str>>

\* a td with the given spans; a span of 1 is left to the attribute's default
Cell(name, rs, cs, content) ==
  Elem(name,
       (IF rs = 1 THEN {} ELSE {<<"rowspan", DecimalStr(rs)>>}) \cup
       (IF cs = 1 THEN {} ELSE {<<"colspan", DecimalStr(cs)>>}),
       content)

\* the spans of the cells of a row: up to MaxCells cells, each span in
\* 1..MaxSpan, the colspans adding up to MaxWidth at most
CellShapes == (1..MaxSpan) \X (1..MaxSpan)

RECURSIVE ShapeCols(_)
ShapeCols(row) == IF row = <<>> THEN 0 ELSE Head(row)[2] + ShapeCols(Tail(row))

RowShapes ==
  {row \in UNION {[1..n -> CellShapes] : n \in 0..MaxCells} : ShapeCols(row) <= MaxWidth}

\* the table of a shape: tr elements right under the table, every cell a td
\* holding one text node
ShapeRow(row) ==
  Elem("tr", {}, [n \in 1..Len(row) |-> Cell("td", row[n][1], row[n][2], <<Text(Chars("x"))>>)])

ShapeTable(shape) == Elem("table", {}, [n \in 1..Len(shape) |-> ShapeRow(shape[n])])

\* what a cell can hold: nothing, text, a paragraph, inline markup, lists,
\* a table, a list followed by a table
InnerTable ==
  Elem("table", {},
       <<Elem("tr", {}, <<Cell("td", 1, 1, <<Text(Chars("n"))>>),
                          Cell("th", 1, 1, <<Text(Chars("m"))>>)>>)>>)

InnerList ==
  Elem("ol", {},
       <<Elem("li", {}, <<Text(Chars("a"))>>),
         Elem("li", {}, <<Text(Chars("b")),
                          Elem("ul", {}, <<Elem("li", {}, <<Text(Chars("c"))>>)>>)>>),
         Elem("li", {}, <<Text(Chars("d"))>>)>>)

CellContents ==
  { <<>>,
    <<Text(Chars("x"))>>,
    <<Elem("p", {}, <<Text(Chars("a"))>>), Elem("p", {}, <<Text(Chars("b"))>>)>>,
    <<Text(Chars("x")), Elem("b", {}, <<Text(Chars("y"))>>)>>,
    <<InnerList>>,
    <<InnerTable>>,
    <<InnerList, InnerTable>> }

\* a header row in a thead and a body row in a tbody, one cell each
ContentTable(head, body) ==
  Elem("table", {},
       <<Elem("thead", {}, <<Elem("tr", {}, <<Cell("th", 1, 1, head)>>)>>),
         Elem("tbody", {}, <<Elem("tr", {}, <<Cell("td", 1, 1, body)>>)>>)>>)

ContentTables == {ContentTable(head, body) : head \in CellContents, body \in CellContents}

\* tables that hold no tr the code collects
RowlessTables ==
  { Elem("table", {}, <<>>),
    Elem("table", {}, <<Text(Chars("x"))>>),
    Elem("table", {}, <<Elem("tbody", {}, <<>>)>>),
    Elem("table", {}, <<Elem("caption", {}, <<Text(Chars("x"))>>)>>),
    Elem("table", {}, <<Elem("div", {}, <<ShapeRow(<<<<1, 1>>>>)>>)>>) }

\* lists: an li with text, an li with text and a list, a list right under a
\* list; three levels deep, up to MaxItems children under the outermost list
Li(content) == Elem("li", {}, content)

PlainLi == Li(<<Text(Chars("x"))>>)

InnermostLists ==
  { Elem("ol", {}, <<PlainLi, PlainLi>>), Elem("ul", {}, <<PlainLi>>) }

MiddleLists ==
  UNION {
    {Elem(name, {}, <<PlainLi, PlainLi>>)}
      \cup {Elem(name, {}, <<Li(<<Text(Chars("x")), inner>>), PlainLi>>) : inner \in InnermostLists}
      \cup {Elem(name, {}, <<inner, PlainLi>>) : inner \in InnermostLists}
    : name \in {"ol", "ul"}}

OuterChildren ==
  {PlainLi} \cup {Li(<<Text(Chars("x")), list>>) : list \in MiddleLists} \cup MiddleLists

\* the heap a caller hands over: a document whose body holds `body`, and one
\* HtmlToDocx instance
InitHeap(body) ==
  [conts |-> <<body>>, ctype |-> <<"Document">>, tables |-> <<>>,
   engines |-> <<HtmlToDocx>>, err |-> None]

OldParagraph == NewParagraph(Chars("old"))

\* block-level nodes a fragment is made of, one for each branch of
\* _parse_elements; the letters tell the text nodes apart
UrlDead == <<"http", "://", "gone", "/", "img", "/", "a.png">>
UrlNoPath == <<"http", "://", "gone">>
UrlServed == <<"http", "://", "ok", "/", "a.png">>

Img(src) == Elem("img", {<<"src", src>>}, <<>>)

CenterStyle ==
  <<"t", "e", "x", "t", "-", "a", "l", "i", "g", "n", ":", " ", "c", "e", "n", "t", "e", "r">>

BareText == Text(Chars("C"))
Blank == Text(<<" ", "\n">>)
Para == Elem("p", {}, <<Text(<<" ", "A", "\n">>)>>)
ParaBlank == Elem("p", {}, <<Blank>>)
ParaBr == Elem("p", {}, <<Text(Chars("A")), Elem("br", {}, <<>>), Text(Chars("B"))>>)
ParaImg == Elem("p", {}, <<Img(UrlDead)>>)
Heading == Elem("h2", {<<"style", CenterStyle>>}, <<Text(Chars("A"))>>)
Quote == Elem("blockquote", {}, <<Text(Chars("A"))>>)
QuotePara ==
  Elem("blockquote", {},
       <<Blank, Elem("p", {}, <<Text(Chars("A"))>>), Blank,
         Elem("p", {}, <<Text(Chars("B"))>>), Blank>>)
Pre == Elem("pre", {}, <<Elem("code", {}, <<Text(<<"\n", " ", "A", "\n", " ", " ", "B", "\n">>)>>)>>)
Br == Elem("br", {}, <<>>)
Bold == Elem("b", {}, <<Text(Chars("A"))>>)
Code == Elem("code", {}, <<Text(Chars("A"))>>)
Link == Elem("a", {<<"href", UrlServed>>}, <<Text(Chars("A"))>>)
Anchor == Elem("a", {}, <<Text(Chars("A"))>>)
NestedList ==
  Elem("ul", {},
       <<Li(<<Text(Chars("A")), Elem("ul", {}, <<Li(<<Text(Chars("B"))>>)>>),
              Text(Chars("C"))>>)>>)
OneCellTable == Elem("table", {}, <<Elem("tr", {}, <<Cell("td", 1, 1, <<Text(Chars("A"))>>)>>)>>)
Hr == Elem("hr", {}, <<>>)

BlockMenu ==
  { BareText, Blank, Para, ParaBlank, ParaBr, ParaImg, Heading, Quote, QuotePara, Pre, Br, Bold,
    Code, Link, Anchor, Img(UrlDead), Img(UrlNoPath), Img(UrlServed), NestedList,
    OneCellTable, Hr }

\* what the caller can set self.paragraph_style to
ParagraphStyles == {None, "Normal", "Bogus"}

\* the heap a caller of the public methods holds: a document with `body` and
\* a 1 x 1 table whose cell holds a paragraph, an object that is neither a
\* Document nor a _Cell, and one HtmlToDocx with the given paragraph_style
TheDocument == 0
TheCell == 1
TheSection == 2

CallHeap(body, style) ==
  LET s1 == add_table(InitHeap(body), TheDocument, 1, 1)
  IN [s1 EXCEPT !.conts = Append([@ EXCEPT ![TheCell + 1] = <<OldParagraph>>], <<>>),
                !.ctype = Append(@, "Section"),
                !.engines[1].paragraph_style = style]

\* the public methods and the second argument they are given
Calls ==
  ({"add_html_to_document", "add_html_to_cell"} \X {TheDocument, TheCell, TheSection})
    \cup {<<"parse_html_string", -1>>}

VARIABLES
  pc,      \* position of the running call
  html,    \* the parsed input of the running call
  st,      \* the heap: containers, tables, engines, the raised exception
  tl,      \* handle_table: the locals of its loops
  placed,  \* handle_table: the locals of every finished cell iteration
  rin,     \* to_roman: the argument n as passed
  rn,      \* to_roman: the local n
  ridx,    \* to_roman: index of the current roman_map entry
  rres,    \* to_roman: the list `result`
  rout,    \* to_roman: the returned text
  mk_name,    \* list marker: list_tag.name
  mk_level,   \* list marker: level
  mk_counter, \* list marker: item_counter
  mk_out,     \* list marker: num_str or bullet
  entry,   \* the public method of the running call
  target,  \* its second argument: a container id, -1 when it takes none
  before,  \* the heap when the call was made
  ncalls   \* the calls made on the instance so far

vars == <<pc, html, st, tl, placed, rin, rn, ridx, rres, rout, mk_name, mk_level, mk_counter, mk_out,
          entry, target, before, ncalls>>

docVars == <<html, st, tl, placed>>
romanVars == <<rin, rn, ridx, rres, rout>>
markerVars == <<mk_name, mk_level, mk_counter, mk_out>>
callVars == <<entry, target, before, ncalls>>

IdleDoc ==
  /\ html = <<>>
  /\ st = InitHeap(<<>>)
  /\ tl = NewTableLoop(<<>>, 0, 0)
  /\ placed = <<>>

IdleRoman ==
  /\ rin = 0
  /\ rn = 0
  /\ ridx = 0
  /\ rres = <<>>
  /\ rout = <<>>

IdleMarker ==
  /\ mk_name = "ol"
  /\ mk_level = 0
  /\ mk_counter = 1
  /\ mk_out = <<>>

IdleCall ==
  /\ entry = "add_html_to_document"
  /\ target = 0
  /\ before = InitHeap(<<>>)
  /\ ncalls = 0

(***************************************************************************)
(* to_roman, one loop iteration per step.                                  *)
(***************************************************************************)
InitRoman ==
  /\ pc = "roman_call"
  /\ rin \in (0 - NegRange) .. MaxRoman
  /\ rn = rin
  /\ ridx = 0
  /\ rres = <<>>
  /\ rout = <<>>
  /\ IdleDoc
  /\ IdleMarker
  /\ IdleCall

\* the range test: return str(n), or enter the loop
RomanCall ==
  /\ pc = "roman_call"
  /\ IF ~RomanInRange(rn)
     THEN /\ rout' = DecimalStr(rn)
          /\ pc' = "roman_done"
          /\ UNCHANGED <<ridx>>
     ELSE /\ ridx' = 1
          /\ pc' = "roman_loop"
          /\ UNCHANGED <<rout>>
  /\ UNCHANGED <<rin, rn, rres>>
  /\ UNCHANGED <<docVars, markerVars, callVars>>

\* one iteration of `while n >= value`
RomanWhile ==
  /\ pc = "roman_loop"
  /\ ridx <= Len(roman_map)
  /\ RomanWhileCond(rn, ridx)
  /\ rres' = Append(rres, roman_map[ridx][2])
  /\ rn' = rn - roman_map[ridx][1]
  /\ UNCHANGED <<pc, rin, ridx, rout>>
  /\ UNCHANGED <<docVars, markerVars, callVars>>

\* the while test fails: the for loop moves to the next entry
RomanFor ==
  /\ pc = "roman_loop"
  /\ ridx <= Len(roman_map)
  /\ ~RomanWhileCond(rn, ridx)
  /\ ridx' = ridx + 1
  /\ UNCHANGED <<pc, rin, rn, rres, rout>>
  /\ UNCHANGED <<docVars, markerVars, callVars>>

\* the for loop is exhausted: return ''.join(result)
RomanReturn ==
  /\ pc = "roman_loop"
  /\ ridx > Len(roman_map)
  /\ rout' = Join(rres)
  /\ pc' = "roman_done"
  /\ UNCHANGED <<rin, rn, ridx, rres>>
  /\ UNCHANGED <<docVars, markerVars, callVars>>

NextRoman == RomanCall \/ RomanWhile \/ RomanFor \/ RomanReturn

SpecRoman == InitRoman /\ [][NextRoman]_vars

\* to_roman runs to completion once called: no step of it waits on anything
FairSpecRoman == SpecRoman /\ WF_vars(NextRoman)

(***************************************************************************)
(* add_html_to_document on one table element, two steps per cell of         *)
(* handle_table.  Tables nested in a cell are converted within the cell's  *)
(* step.                                                                   *)
(***************************************************************************)
\* the input: a table of up to MaxRows rows of RowShapes, or one of
\* ContentTables and RowlessTables
InitTable ==
  /\ pc = "table_call"
  /\ \/ \E n \in 1..MaxRows : \E shape \in [1..n -> RowShapes] :
          html = <<ShapeTable(shape)>>
     \/ \E table \in ContentTables \cup RowlessTables : html = <<table>>
  /\ st = InitHeap(<<OldParagraph>>)
  /\ tl = NewTableLoop(<<>>, 0, 0)
  /\ placed = <<>>
  /\ IdleRoman
  /\ IdleMarker
  /\ IdleCall

\* add_html_to_document down to handle_table's loops: set_initial_attrs, the
\* rows, max_cols, the two early returns, add_table
TableBegin ==
  /\ pc = "table_call"
  /\ \E b \in {BeginTable(set_initial_attrs(st, 1, 0), 1, html[1])} :
        /\ st' = b.st
        /\ tl' = b.tl
        /\ pc' = IF Raised(b.st) THEN "raised"
                 ELSE IF b.made THEN "table_cells" ELSE "done"
  /\ UNCHANGED <<html, placed>>
  /\ UNCHANGED <<romanVars, markerVars, callVars>>

\* the locals of the cell iteration that just ran, for `placed`
CellRecord(l, err) ==
  [i |-> l.i, j |-> l.j, r_span |-> l.r_span, c_span |-> l.c_span, k |-> l.k,
   raised |-> err]

\* the inner loop takes the next cell of the row: cursor, spans, document
\* cell, content
TableConvertCell ==
  /\ pc = "table_cells"
  /\ tl.i < tl.num_rows
  /\ tl.k < Len(CurrentCells(tl))
  /\ \E r \in {ConvertCell(st, 1, tl, CurrentCells(tl)[tl.k + 1])} :
        /\ st' = r.st
        /\ tl' = r.tl
        /\ placed' = IF Raised(r.st) THEN Append(placed, CellRecord(r.tl, r.st.err))
                     ELSE placed
        /\ pc' = IF Raised(r.st) THEN "raised" ELSE "table_cell_finish"
  /\ UNCHANGED <<html>>
  /\ UNCHANGED <<romanVars, markerVars, callVars>>

\* the rest of the cell's iteration: header styling, merge, grid_map
TableFinishCell ==
  /\ pc = "table_cell_finish"
  /\ \E r \in {FinishCell(st, tl, CurrentCells(tl)[tl.k + 1], IsHeaderRow(tl))} :
        /\ st' = r.st
        /\ tl' = r.tl
        /\ placed' = Append(placed, CellRecord(tl, r.st.err))
        /\ pc' = IF Raised(r.st) THEN "raised" ELSE "table_cells"
  /\ UNCHANGED <<html>>
  /\ UNCHANGED <<romanVars, markerVars, callVars>>

\* the row has no cell left: the outer loop takes the next row
TableNextRow ==
  /\ pc = "table_cells"
  /\ tl.i < tl.num_rows
  /\ tl.k >= Len(CurrentCells(tl))
  /\ tl' = NextRow(tl)
  /\ UNCHANGED <<pc, html, st, placed>>
  /\ UNCHANGED <<romanVars, markerVars, callVars>>

\* no row left: handle_table, _parse_elements and add_html_to_document return
TableReturn ==
  /\ pc = "table_cells"
  /\ tl.i >= tl.num_rows
  /\ pc' = "done"
  /\ UNCHANGED <<html, st, tl, placed>>
  /\ UNCHANGED <<romanVars, markerVars, callVars>>

NextTable ==
  TableBegin \/ TableConvertCell \/ TableFinishCell \/ TableNextRow \/ TableReturn

SpecTable == InitTable /\ [][NextTable]_vars

(***************************************************************************)
(* The marker of one list item: the `if list_tag.name == 'ol'` statement of *)
(* handle_list for one (list_tag.name, level, item_counter).               *)
(***************************************************************************)
InitMarker ==
  /\ pc = "marker_call"
  /\ mk_name \in {"ol", "ul"}
  /\ mk_level \in 0..MaxLevel
  /\ mk_counter \in 1..MaxCounter
  /\ mk_out = <<>>
  /\ IdleDoc
  /\ IdleRoman
  /\ IdleCall

MarkerText ==
  /\ pc = "marker_call"
  /\ mk_out' = ListMarker(mk_name, mk_level, mk_counter)
  /\ pc' = "marker_done"
  /\ UNCHANGED <<mk_name, mk_level, mk_counter>>
  /\ UNCHANGED <<docVars, romanVars, callVars>>

NextMarker == MarkerText

SpecMarker == InitMarker /\ [][NextMarker]_vars

(***************************************************************************)
(* add_html_to_document on one list element.                               *)
(***************************************************************************)
\* the input: an ol or a ul of up to MaxItems OuterChildren
InitList ==
  /\ pc = "list_call"
  /\ \E name \in {"ol", "ul"} : \E n \in 1..MaxItems :
       \E children \in [1..n -> OuterChildren] : html = <<Elem(name, {}, children)>>
  /\ st = InitHeap(<<OldParagraph>>)
  /\ tl = NewTableLoop(<<>>, 0, 0)
  /\ placed = <<>>
  /\ IdleRoman
  /\ IdleMarker
  /\ IdleCall

\* add_html_to_document: set_initial_attrs, run_process, handle_list and all
\* it calls
ListConvert ==
  /\ pc = "list_call"
  /\ st' = add_html_to_document(st, 1, html, 0)
  /\ pc' = IF Raised(st') THEN "raised" ELSE "list_done"
  /\ UNCHANGED <<html, tl, placed>>
  /\ UNCHANGED <<romanVars, markerVars, callVars>>

NextList == ListConvert

SpecList == InitList /\ [][NextList]_vars

(***************************************************************************)
(* The public methods: one call, and calls one after another on the same  *)
(* instance.                                                               *)
(***************************************************************************)
\* the call `entry(html, target)` on instance 1
Invoke(heap, method, markup, container) ==
  IF method = "add_html_to_document" THEN add_html_to_document(heap, 1, markup, container)
  ELSE IF method = "add_html_to_cell" THEN add_html_to_cell(heap, 1, markup, container)
  ELSE parse_html_string(heap, 1, markup)

InitCall(fragments, bodies, styles) ==
  /\ pc = "call"
  /\ html \in fragments
  /\ \E body \in bodies : \E style \in styles : st = CallHeap(body, style)
  /\ \E c \in Calls : entry = c[1] /\ target = c[2]
  /\ before = st
  /\ ncalls = 0
  /\ tl = NewTableLoop(<<>>, 0, 0)
  /\ placed = <<>>
  /\ IdleRoman
  /\ IdleMarker

InitConvert ==
  InitCall(UNION {[1..k -> BlockMenu] : k \in 1..MaxBlocks}
             \cup {NoneHtml, BytesHtml(<<Para>>)},
           {<<>>, <<OldParagraph>>}, ParagraphStyles)

\* the whole call: it returns or raises
Convert ==
  /\ pc = "call"
  /\ \E r \in {Invoke(st, entry, html, target)} :
       /\ st' = r
       /\ pc' = IF Raised(r) THEN "raised" ELSE "returned"
  /\ ncalls' = ncalls + 1
  /\ UNCHANGED <<html, tl, placed, entry, target, before>>
  /\ UNCHANGED <<romanVars, markerVars>>

NextConvert == Convert

SpecConvert == InitConvert /\ [][NextConvert]_vars

InitReuse ==
  InitCall({<<b>> : b \in BlockMenu}, {<<OldParagraph>>}, {None, "Normal"})

\* the caller, having the result or having caught the exception, makes
\* another call on the same instance
Again ==
  /\ pc \in {"returned", "raised"}
  /\ ncalls < MaxCalls
  /\ \E b \in BlockMenu : html' = <<b>>
  /\ \E c \in Calls : entry' = c[1] /\ target' = c[2]
  /\ st' = [st EXCEPT !.err = None]
  /\ before' = st'
  /\ pc' = "call"
  /\ UNCHANGED <<tl, placed, ncalls>>
  /\ UNCHANGED <<romanVars, markerVars>>

NextReuse == Convert \/ Again

SpecReuse == InitReuse /\ [][NextReuse]_vars

(***************************************************************************)
(* What handle_table is checked against.                                   *)
(***************************************************************************)
RECURSIVE SeqSum(_)
SeqSum(seq) == IF seq = <<>> THEN 0 ELSE Head(seq) + SeqSum(Tail(seq))

\* the spans the source declares, <<rowspan, colspan>> per cell of every row
Declared(rows) ==
  [n \in 1..Len(rows) |->
     LET cells == RowCells(rows[n].row)
     IN [m \in 1..Len(cells) |->
           <<SpanAttr(cells[m], "rowspan").val, SpanAttr(cells[m], "colspan").val>>]]

\* the widest row: the largest sum of declared colspans, 0 without rows
DeclaredWidth(decl) ==
  SetMax({SeqSum([m \in 1..Len(decl[n]) |-> decl[n][m][2]]) : n \in 1..Len(decl)} \cup {0})

DeclaredArea(decl) ==
  SeqSum([n \in 1..Len(decl) |->
            SeqSum([m \in 1..Len(decl[n]) |-> decl[n][m][1] * decl[n][m][2]])])

CellIndex(decl) == {ix \in (1..Len(decl)) \X (1..MaxCells) : ix[2] <= Len(decl[ix[1]])}

NthSmallest(S, m) == CHOOSE x \in S : Cardinality({y \in S : y < x}) = m - 1

\* the rectangle the cell ix declares when the cells of row n start at the
\* columns cols[n], left to right
DeclaredRect(decl, cols, ix) ==
  LET top == ix[1] - 1
      left == NthSmallest(cols[ix[1]], ix[2])
  IN (top..(top + decl[ix[1]][ix[2]][1] - 1)) \X (left..(left + decl[ix[1]][ix[2]][2] - 1))

\* the declared rectangles tile the R x C grid: inside it, no two over one
\* position, no position left out
Tiles(decl, cols, R, C) ==
  /\ \A n \in 1..R : Cardinality(cols[n]) = Len(decl[n])
  /\ \A ix \in CellIndex(decl) : DeclaredRect(decl, cols, ix) \subseteq (0..(R - 1)) \X (0..(C - 1))
  /\ \A pos \in (0..(R - 1)) \X (0..(C - 1)) :
       Cardinality({ix \in CellIndex(decl) : pos \in DeclaredRect(decl, cols, ix)}) = 1

\* a well-formed table: spans of at least one, and start columns exist that
\* make the declared rectangles tile the grid of Len(rows) rows and as many
\* columns as the widest row declares
WellFormed(rows) ==
  LET decl == Declared(rows)
      R == Len(decl)
      C == DeclaredWidth(decl)
  IN /\ R >= 1
     /\ C >= 1
     /\ \A ix \in CellIndex(decl) : decl[ix[1]][ix[2]][1] >= 1 /\ decl[ix[1]][ix[2]][2] >= 1
     /\ DeclaredArea(decl) = R * C
     /\ \E cols \in [1..R -> SUBSET (0..(C - 1))] : Tiles(decl, cols, R, C)

\* the resolved rectangle of a finished cell iteration: origin plus clipped spans
ResolvedRect(c) == (c.i..(c.i + c.r_span - 1)) \X (c.j..(c.j + c.c_span - 1))

GridPositions == (0..(tl.num_rows - 1)) \X (0..(tl.max_cols - 1))

\* the spans the source declares for the cell of a finished iteration
DeclaredOf(c) == Declared(tl.rows)[c.i + 1][c.k + 1]

\* the area clipping took off the declared rectangles
RECURSIVE Discarded(_)
Discarded(n) ==
  IF n = 0 THEN 0
  ELSE (DeclaredOf(placed[n])[1] * DeclaredOf(placed[n])[2])
         - (placed[n].r_span * placed[n].c_span) + Discarded(n - 1)

\* handle_table made a table and has returned or raised
TableFinished == pc \in {"done", "raised"} /\ tl.tid # 0

\* C1: for a well-formed table, once handle_table has gone through all rows,
\* every grid position is in the resolved rectangle of exactly one source
\* cell, and the marked area is numRows*numCols minus what clipping discarded
C1_ExactCover ==
  (TableFinished /\ WellFormed(tl.rows)) =>
     /\ pc = "done"
     /\ Len(placed) = Cardinality(CellIndex(Declared(tl.rows)))
     /\ \A pos \in GridPositions :
          Cardinality({n \in 1..Len(placed) : pos \in ResolvedRect(placed[n])}) = 1
     /\ Cardinality(tl.grid_map) = (tl.num_rows * tl.max_cols) - Discarded(Len(placed))

\* a well-formed 3x3 table with a cell spanning two rows and two columns is done
C1_Witness ==
  /\ pc = "done"
  /\ tl.num_rows = 3
  /\ tl.max_cols = 3
  /\ WellFormed(tl.rows)
  /\ \E n \in 1..Len(placed) : placed[n].r_span = 2 /\ placed[n].c_span = 2
  /\ \E n \in 1..Len(placed) : placed[n].i = 2 /\ placed[n].j = 2

\* a cell iteration starts with every column of its row taken
RowFull ==
  /\ pc = "table_cells"
  /\ tl.i < tl.num_rows
  /\ tl.k < Len(CurrentCells(tl))
  /\ SkipOccupied(tl.grid_map, tl.i, tl.j, tl.max_cols) >= tl.max_cols

\* C2: a source cell reached when its row has no free column left is dropped
\* silently: its iteration changes no cell and no table of the document,
\* raises nothing, and the loop goes on
C2_SilentDrop ==
  [][RowFull => /\ st'.conts = st.conts
                /\ st'.tables = st.tables
                /\ st'.err = None
                /\ pc' # "raised"]_vars

FlatPos(r, c) == (r * tl.max_cols) + c

FlatRect(c) == {FlatPos(pos[1], pos[2]) : pos \in ResolvedRect(c)}

\* the finished iterations that placed a cell inside the grid with a span
\* above one
Spanning ==
  {n \in 1..Len(placed) :
     /\ placed[n].j < tl.max_cols
     /\ placed[n].r_span > 1 \/ placed[n].c_span > 1}

\* every spanning cell is one merged cell over exactly its rectangle, and
\* every position outside these rectangles is a cell of its own
MergedExactly ==
  LET t == st.tables[tl.tid]
  IN /\ \A n \in Spanning :
          CellRegion(t, t.owner[FlatPos(placed[n].i, placed[n].j) + 1]) = FlatRect(placed[n])
     /\ \A p \in (0..((t.rows * t.cols) - 1)) \ UNION {FlatRect(placed[n]) : n \in Spanning} :
          CellRegion(t, t.owner[p + 1]) = {p}

\* every cell of the table found a free column in its row
AllInGrid == \A n \in 1..Len(placed) : placed[n].j < tl.max_cols

CellStep ==
  /\ pc = "table_cells"
  /\ tl.i < tl.num_rows
  /\ tl.k < Len(CurrentCells(tl))

\* C4: converting the content of one table cell writes to that cell only: the
\* body, every other cell and every table stay as they were, and so does the
\* surrounding engine (append target, current paragraph, current run)
C4_CellIsolation ==
  [][(CellStep /\ pc' = "table_cell_finish") =>
       LET cell_cont == st.tables[tl.tid].base + tl'.docx_cell
       IN /\ st'.engines[1] = st.engines[1]
          /\ st'.conts[1] = st.conts[1]
          /\ \A c \in 2..Len(st.conts) : c # cell_cont + 1 => st'.conts[c] = st.conts[c]
          /\ \A t \in 1..Len(st.tables) : st'.tables[t] = st.tables[t]
          /\ st'.err = None]_vars

\* a cell holding a list and a table has been converted: its container has
\* the list's paragraphs and the table, the body has what it had
C4_Witness ==
  /\ pc = "table_cell_finish"
  /\ tl.i = 1
  /\ LET cell == Blocks(st, st.tables[tl.tid].base + tl.docx_cell)
     IN /\ \E n \in 1..Len(cell) : cell[n].kind = "tbl"
        /\ Cardinality({n \in 1..Len(cell) : cell[n].kind = "p"}) >= 4
  /\ Len(st.tables) = 3
  /\ Blocks(st, 0) = <<OldParagraph, TableBlock(1)>>
  /\ st.engines[1].doc = 0

\* C9: numCols is the largest sum of a row's colspans over the collected
\* rows; with no row or numCols = 0 no table is made and the append target
\* stays as it was, and otherwise a numRows x numCols table is appended to it
C9_NumCols ==
  pc # "table_call" =>
    LET width == DeclaredWidth(Declared(tl.rows))
    IN IF Len(tl.rows) = 0 \/ width = 0
       THEN /\ pc = "done"
            /\ st.tables = <<>>
            /\ st.conts = <<<<OldParagraph>>>>
            /\ st.engines[1].doc = 0
       ELSE /\ tl.max_cols = width
            /\ tl.num_rows = Len(tl.rows)
            /\ st.tables[1].rows = Len(tl.rows)
            /\ st.tables[1].cols = width
            /\ Blocks(st, 0) = <<OldParagraph, TableBlock(1)>>

\* rows whose widest declares 3 columns while the last declares fewer
C9_Witness ==
  /\ pc = "done"
  /\ tl.num_rows = 3
  /\ tl.max_cols = 3
  /\ DeclaredWidth(Declared(<<tl.rows[3]>>)) = 1
  /\ DeclaredWidth(Declared(<<tl.rows[1]>>)) = 2

RomanOnes ==
  << <<>>, <<"i">>, <<"i", "i">>, <<"i", "i", "i">>, <<"i", "v">>, <<"v">>,
     <<"v", "i">>, <<"v", "i", "i">>, <<"v", "i", "i", "i">>, <<"i", "x">> >>

RomanTens ==
  << <<>>, <<"x">>, <<"x", "x">>, <<"x", "x", "x">>, <<"x", "l">>, <<"l">>,
     <<"l", "x">>, <<"l", "x", "x">>, <<"l", "x", "x", "x">>, <<"x", "c">> >>

RomanHundreds ==
  << <<>>, <<"c">>, <<"c", "c">>, <<"c", "c", "c">>, <<"c", "d">>, <<"d">>,
     <<"d", "c">>, <<"d", "c", "c">>, <<"d", "c", "c", "c">>, <<"c", "m">> >>

RomanThousands == << <<>>, <<"m">>, <<"m", "m">>, <<"m", "m", "m">> >>

StandardRoman(n) ==
  RomanThousands[(n \div 1000) + 1] \o RomanHundreds[((n \div 100) % 10) + 1]
    \o RomanTens[((n \div 10) % 10) + 1] \o RomanOnes[(n % 10) + 1]

\* the decimal string of an integer below 100000, sign first
NumDigits(m) == CHOOSE len \in 1..5 : m < 10 ^ len /\ (len = 1 \/ m >= 10 ^ (len - 1))

DecimalOf(n) ==
  LET m == IF n < 0 THEN 0 - n ELSE n
      digits == [d \in 1..NumDigits(m) |-> Digits[((m \div (10 ^ (NumDigits(m) - d))) % 10) + 1]]
  IN IF n < 0 THEN <<"-">> \o digits ELSE digits

RomanAnswerRight ==
  pc = "roman_done" =>
    /\ (1 <= rin /\ rin <= 3999) => rout = StandardRoman(rin)
    /\ (rin <= 0 \/ rin >= 4000) => rout = DecimalOf(rin)
    /\ rin = 1 => rout = <<"i">>
    /\ rin = 4 => rout = <<"i", "v">>
    /\ rin = 9 => rout = <<"i", "x">>

\* C7: to_roman(n) is the standard lowercase subtractive numeral of n for n in
\* 1..3999 (1 -> i, 4 -> iv, 9 -> ix) and the decimal string of n outside
\* that range, and its loop comes to an end for every n
C7_ToRoman == [](RomanAnswerRight) /\ <>(pc = "roman_done")

\* 3999, the longest run of the loop below the limit, has been answered
C7_Witness ==
  /\ pc = "roman_done"
  /\ rin = 3999
  /\ rout = <<"m", "m", "m", "c", "m", "x", "c", "i", "x">>

Alphabet ==
  <<"a", "b", "c", "d", "e", "f", "g", "h", "i", "j", "k", "l", "m",
    "n", "o", "p", "q", "r", "s", "t", "u", "v", "w", "x", "y", "z">>

\* the marker the text of the property gives for a kind, a level and a
\* counter; letters are given for 1..26 only
ExpectedMarker(kind, level, counter) ==
  IF kind = "ol"
  THEN IF level = 0 THEN DecimalOf(counter) \o <<".">>
       ELSE IF level = 1 THEN <<Alphabet[counter], ".">>
       ELSE StandardRoman(counter) \o <<".">>
  ELSE ul_bullets[(level % 3) + 1]

\* C6: the marker is a function of kind, level and counter: decimal and '.'
\* for ol at level 0, the counter-th lowercase letter and '.' at level 1 for
\* counters 1..26, the lowercase Roman numeral and '.' from level 2 on, and
\* for ul the entry level mod 3 of the 3-entry bullet table
C6_MarkerText ==
  (pc = "marker_done" /\ (mk_name = "ol" /\ mk_level = 1 => mk_counter <= 26)) =>
     /\ mk_out = ExpectedMarker(mk_name, mk_level, mk_counter)
     /\ Len(ul_bullets) = 3
     /\ (mk_name = "ol" /\ mk_level = 0 /\ mk_counter = 3) => mk_out = <<"3", ".">>
     /\ (mk_name = "ol" /\ mk_level = 1 /\ mk_counter = 1) => mk_out = <<"a", ".">>
     /\ (mk_name = "ol" /\ mk_level = 1 /\ mk_counter = 2) => mk_out = <<"b", ".">>
     /\ (mk_name = "ol" /\ mk_level = 1 /\ mk_counter = 3) => mk_out = <<"c", ".">>

\* the marker of the 26th item of an ordered list at level 1 is 'z.'
C6_Witness ==
  /\ pc = "marker_done"
  /\ mk_name = "ol"
  /\ mk_level = 1
  /\ mk_counter = 26
  /\ mk_out = <<"z", ".">>

(***************************************************************************)
(* What handle_list is checked against.                                    *)
(***************************************************************************)
\* the li elements of a list in document order, each with the kind of its
\* list, its place among the li children of its list, the nesting depth of
\* its list and how that list is reached ("top", "li": inside an li, "list":
\* right under a list).  `extra` is how much deeper than a list inside an li
\* a list right under a list is taken to be.
RECURSIVE ItemsFrom(_, _, _, _, _, _)
RECURSIVE ItemsIn(_, _, _, _)
ItemsFrom(list, c, seen, depth, via, extra) ==
  IF c > Len(list.children) THEN <<>>
  ELSE LET child == list.children[c]
       IN IF child.name = "li"
          THEN <<[kind |-> list.name, place |-> seen + 1, depth |-> depth, via |-> via]>>
                 \o ItemsIn(child.children, 1, depth, extra)
                 \o ItemsFrom(list, c + 1, seen + 1, depth, via, extra)
          ELSE IF child.name \in {"ul", "ol"}
          THEN ItemsFrom(child, 1, 0, depth + 1 + extra, "list", extra)
                 \o ItemsFrom(list, c + 1, seen, depth, via, extra)
          ELSE ItemsFrom(list, c + 1, seen, depth, via, extra)

ItemsIn(children, c, depth, extra) ==
  IF c > Len(children) THEN <<>>
  ELSE (IF children[c].name \in {"ul", "ol"}
        THEN ItemsFrom(children[c], 1, 0, depth + 1, "li", extra) ELSE <<>>)
         \o ItemsIn(children, c + 1, depth, extra)

\* the paragraphs the conversion appended to the body
ListParagraphs == Tail(Blocks(st, 0))

\* the marker of an item's paragraph: its first run without the tab
MarkerOf(p) == SubSeq(p.runs[1].text, 1, Len(p.runs[1].text) - 1)

\* the level an item's paragraph is indented to
LevelOfIndent(p) == (p.left_indent \div LIST_INDENT) - 1

\* C5: the ordered-list counter is level-local: the k-th li child of an
\* ordered list carries the marker of counter k at its level, whatever lists
\* are nested in earlier items or stand between the items, every nested list
\* counting from 1; the items of an unordered list carry its bullet
C5_LevelLocalCounter ==
  pc \in {"list_done", "raised"} =>
    LET items == ItemsFrom(html[1], 1, 0, 0, "top", 0)
    IN /\ pc = "list_done"
       /\ Len(ListParagraphs) = Len(items)
       /\ \A n \in 1..Len(items) :
            MarkerOf(ListParagraphs[n]) =
              ExpectedMarker(items[n].kind, LevelOfIndent(ListParagraphs[n]), items[n].place)

\* an ordered list whose third item follows an item holding a list and a
\* list right under the list
C5_Witness ==
  /\ pc = "list_done"
  /\ html[1].name = "ol"
  /\ Len(html[1].children) = 3
  /\ html[1].children[1].name = "li" /\ Len(html[1].children[1].children) = 2
  /\ html[1].children[2].name = "ol"
  /\ html[1].children[3].name = "li"
  /\ MarkerOf(ListParagraphs[Len(ListParagraphs)]) = <<"2", ".">>

\* the depth the paragraphs are indented to is the depth of their items,
\* a list right under a list taken `extra` deeper than one inside an li
LevelsAre(extra) ==
  LET items == ItemsFrom(html[1], 1, 0, 0, "top", extra)
  IN /\ Len(ListParagraphs) = Len(items)
     /\ \A n \in 1..Len(items) : LevelOfIndent(ListParagraphs[n]) = items[n].depth

\* C8 as stated: a list right under a list is rendered one level deeper than
\* it would be inside an li of the same outer list
C8_MalformedOneDeeper == pc = "list_done" => LevelsAre(1)

\* C8: a list right under a list is rendered at the level it would have
\* inside an li of the same outer list, one level deeper than the outer list
C8_MalformedAsNested == pc = "list_done" => LevelsAre(0)

\* a list holds a list right under it and a list inside an li, and the items
\* of the two are indented alike
C8_Witness ==
  /\ pc = "list_done"
  /\ LET items == ItemsFrom(html[1], 1, 0, 0, "top", 0)
     IN \E m, n \in 1..Len(items) :
          /\ items[m].via = "list" /\ items[m].depth = 1
          /\ items[n].via = "li" /\ items[n].depth = 1
          /\ ListParagraphs[m].left_indent = ListParagraphs[n].left_indent
          /\ ListParagraphs[m].left_indent = 2 * LIST_INDENT

(***************************************************************************)
(* The public methods.                                                     *)
(***************************************************************************)
\* a call of a public method is over, returned or raised
CallOver == pc \in {"returned", "raised"}

\* the documents, cells and tables are as they were when the call was made
HeapUntouched == st.conts = before.conts /\ st.tables = before.tables

\* the second argument is of a type the method's documentation names
SupportedTarget ==
  IF entry = "add_html_to_document" THEN before.ctype[target + 1] \in {"Document", "Cell"}
  ELSE before.ctype[target + 1] = "Cell"

BadArguments == entry # "parse_html_string" /\ (~IsStr(html) \/ ~SupportedTarget)

\* C11: add_html_to_document and add_html_to_cell answer html that is not a
\* str, or a target of an unsupported type, with the invalid-input error
\* (ValueError), raised before anything is converted: the target and every
\* other document object are as before the call
C11_RejectsBadArguments ==
  (CallOver /\ BadArguments) => (st.err = "ValueError" /\ HeapUntouched)

\* the container the call was given is as it was when the call was made
TargetUntouched == st.conts[target + 1] = before.conts[target + 1]

\* the call was given a str and a target of a supported type
GoodArguments == entry # "parse_html_string" /\ IsStr(html) /\ SupportedTarget

\* C12: a conversion is all or nothing: a call that raises, a style error on
\* a later paragraph included, leaves no output of that call in its target
C12_AllOrNothing == (pc = "raised" /\ GoodArguments) => TargetUntouched

\* the one-block fragments whose block is, or holds, an img with a URL that
\* does not answer, and that URL
DeadImages ==
  [html |-> {<<Img(UrlDead)>>, <<Img(UrlNoPath)>>, <<ParaImg>>},
   src |-> [f \in {<<Img(UrlDead)>>, <<ParaImg>>} |-> UrlDead] @@ (<<Img(UrlNoPath)>> :> UrlNoPath)]

\* the paragraphs of the target that are the fallback of the URL: one run,
\* its text '<image: ' + URL + '>'
FallbackParagraphs(url) ==
  {n \in ParagraphIdxs(st, target) :
     Blocks(st, target)[n].runs = <<NewRun(<<"<image: ">> \o url \o <<">">>)>>}

DefaultSettings == before.engines[1].paragraph_style = None

\* C13: with images enabled, an img whose src is a URL that cannot be fetched
\* gives, whether the append target is the body, a cell or an open
\* paragraph, exactly one fallback paragraph with the text
\* '<image: ' + the full URL + '>', and the conversion goes on to its end
C13_ImageFallback ==
  (CallOver /\ GoodArguments /\ DefaultSettings /\ html \in DeadImages.html)
    => (pc = "returned" /\ Cardinality(FallbackParagraphs(DeadImages.src[html])) = 1)

\* what the target held when the conversion began: add_html_to_cell empties
\* the cell first
TargetAtStart == IF entry = "add_html_to_cell" THEN <<>> ELSE before.conts[target + 1]

\* the call appended one paragraph with the given style to its target and
\* left the blocks that were there as they were
OneNewParagraphStyled(style) ==
  LET old == TargetAtStart
      new == st.conts[target + 1]
  IN /\ Len(new) = Len(old) + 1
     /\ SubSeq(new, 1, Len(old)) = old
     /\ new[Len(new)].kind = "p"
     /\ new[Len(new)].style = style

\* C14: the named style goes to the paragraph made for the element and to no
\* other: 'Heading n' for hn, the configured paragraph style, when there is
\* one, for p; a style the document does not know raises the
\* style-application error (ValueError)
C14_StyleOnNewParagraph ==
  (CallOver /\ GoodArguments /\ html \in {<<Para>>, <<Heading>>}) =>
    LET configured == before.engines[1].paragraph_style
    IN IF html = <<Heading>> THEN pc = "returned" /\ OneNewParagraphStyled("Heading 2")
       ELSE IF configured = None THEN pc = "returned" /\ OneNewParagraphStyled("Default")
       ELSE IF configured \in KnownStyles
       THEN pc = "returned" /\ OneNewParagraphStyled(configured)
       ELSE st.err = "ValueError"

\* the paragraphs of the target that hold text of the input (a letter run)
TextParagraphs ==
  {n \in ParagraphIdxs(st, target) :
     \E r \in 1..Len(Blocks(st, target)[n].runs) :
       Blocks(st, target)[n].runs[r].text \in {<<"A">>, <<"B">>, <<"C">>}}

\* the paragraph format handle_blockquote gives: the same indent left and
\* right, and the shading
QuoteFormat(p) == p.left_indent # -1 /\ p.left_indent = p.right_indent /\ p.shd = "F0F0F0"

\* C15: all the content of a blockquote, text inside child p elements
\* included, goes to the blockquote's paragraph, indented left and right by
\* the same amount and shaded; no text of the blockquote is in a paragraph
\* without that format
C15_QuoteTextFormatted ==
  (pc = "returned" /\ GoodArguments /\ html \in {<<Quote>>, <<QuotePara>>}) =>
    /\ TextParagraphs # {}
    /\ \A n \in TextParagraphs : QuoteFormat(Blocks(st, target)[n])

\* the blocks the call appended to its target, when it left the earlier
\* blocks alone
Appended ==
  LET old == TargetAtStart
      new == st.conts[target + 1]
  IN IF Len(new) >= Len(old) /\ SubSeq(new, 1, Len(old)) = old
     THEN SubSeq(new, Len(old) + 1, Len(new))
     ELSE <<[kind |-> "changed"]>>

\* the appended blocks are one paragraph with the given runs
OneParagraphWithRuns(runs) ==
  Len(Appended) = 1 /\ Appended[1].kind = "p" /\ Appended[1].runs = runs

\* C16: the text of a pre goes out as one run, flattened and verbatim; the
\* text nodes of a p are stripped and a whitespace-only node gives no run:
\* <p>A</p> with whitespace around A gives one paragraph with the text 'A'
C16_TextHandling ==
  (pc = "returned" /\ GoodArguments) =>
    /\ (html = <<Blank>> /\ entry = "add_html_to_document") => Appended = <<>>
    /\ html = <<Pre>> =>
         /\ Len(Appended) = 1
         /\ Len(Appended[1].runs) = 1
         /\ Appended[1].runs[1].text = <<"\n", " ", "A", "\n", " ", " ", "B", "\n">>
    /\ html = <<Para>> => OneParagraphWithRuns(<<NewRun(<<"A">>)>>)
    /\ html = <<ParaBlank>> => OneParagraphWithRuns(<<>>)
    /\ html = <<Pre, Para>> =>
         /\ Len(Appended) = 2
         /\ Appended[1].runs[1].text = <<"\n", " ", "A", "\n", " ", " ", "B", "\n">>
         /\ Appended[2].runs = <<NewRun(<<"A">>)>>

\* a p with text between whitespace was converted into a document that held
\* a paragraph
C16_Witness ==
  /\ pc = "returned" /\ entry = "add_html_to_document" /\ target = TheDocument
  /\ html = <<Para>>
  /\ Len(before.conts[TheDocument + 1]) = 2
  /\ Len(st.conts[TheDocument + 1]) = 3
  /\ st.conts[TheDocument + 1][3].runs = <<NewRun(<<"A">>)>>

\* the index of the last paragraph among blocks, 0 when there is none
LastParagraphOf(blocks) ==
  IF \E n \in 1..Len(blocks) : blocks[n].kind = "p"
  THEN CHOOSE n \in 1..Len(blocks) :
         blocks[n].kind = "p" /\ \A m \in n + 1..Len(blocks) : blocks[m].kind # "p"
  ELSE 0

\* the paragraph with a break appended to its last run, if it has a run
WithBreak(p) ==
  IF p.runs = <<>> THEN p ELSE [p EXCEPT !.runs[Len(p.runs)].breaks = @ + 1]

\* C17: a br, at the body, in a cell or in an open paragraph, takes the last
\* paragraph of the append target (making one only when there is none) and
\* appends a break to its last run when it has one; it never raises
C17_BreakInLastParagraph ==
  (CallOver /\ GoodArguments /\ DefaultSettings /\ html \in {<<Br>>, <<ParaBr>>}) =>
    /\ pc = "returned"
    /\ html = <<Br>> =>
         LET old == TargetAtStart
             n == LastParagraphOf(old)
         IN IF n = 0 THEN st.conts[target + 1] = Append(old, NewParagraph(<<>>))
            ELSE st.conts[target + 1] = [old EXCEPT ![n] = WithBreak(@)]
    /\ html = <<ParaBr>> =>
         OneParagraphWithRuns(<<[NewRun(<<"A">>) EXCEPT !.breaks = 1], NewRun(<<"B">>)>>)

\* runs is `earlier` followed by one run with the text 'A'
OneMoreRun(runs, earlier) ==
  /\ Len(runs) = Len(earlier) + 1
  /\ SubSeq(runs, 1, Len(earlier)) = earlier
  /\ runs[Len(runs)].text = <<"A">>

\* C18: an emphasis or monospace tag, or a link with or without href, right
\* at block level of a body or cell puts its run into the last paragraph of
\* the target; a paragraph is made only when the target has none
C18_InlineInLastParagraph ==
  (pc = "returned" /\ GoodArguments /\ html \in {<<Bold>>, <<Code>>, <<Link>>, <<Anchor>>}) =>
    LET old == TargetAtStart
        new == st.conts[target + 1]
        n == LastParagraphOf(old)
    IN IF n = 0
       THEN /\ Len(Appended) = 1
            /\ Appended[1].kind = "p"
            /\ OneMoreRun(Appended[1].runs, <<>>)
       ELSE /\ Len(new) = Len(old)
            /\ \A m \in 1..Len(old) : m # n => new[m] = old[m]
            /\ OneMoreRun(new[n].runs, old[n].runs)

\* the letters of the text nodes of the input, in source order
IsLetter(ch) == ch \in {"A", "B", "C"}

SourceLetters(nodes) == SelectSeq(GetTextOfSeq(nodes, FALSE), IsLetter)

\* the letters of a sequence of blocks in reading order: the runs of a
\* paragraph one after another, the cells of a table row by row, a merged
\* cell once, each cell with the blocks it holds
RECURSIVE LettersOfRuns(_)
LettersOfRuns(runs) ==
  IF runs = <<>> THEN <<>>
  ELSE SelectSeq(Head(runs).text, IsLetter) \o LettersOfRuns(Tail(runs))

RECURSIVE LettersOfBlocks(_, _)
RECURSIVE LettersOfCells(_, _, _)
LettersOfBlocks(heap, blocks) ==
  IF blocks = <<>> THEN <<>>
  ELSE (IF Head(blocks).kind = "p" THEN LettersOfRuns(Head(blocks).runs)
        ELSE LettersOfCells(heap, heap.tables[Head(blocks).tid], 0))
       \o LettersOfBlocks(heap, Tail(blocks))
LettersOfCells(heap, t, idx) ==
  IF idx >= t.rows * t.cols THEN <<>>
  ELSE (IF t.owner[idx + 1] = idx THEN LettersOfBlocks(heap, heap.conts[t.base + idx + 1])
        ELSE <<>>)
       \o LettersOfCells(heap, t, idx + 1)

\* C19: the text of the output, read from top to bottom, is the text of the
\* input in source order: text after a table or a list, and text of a list
\* item after a nested list, does not come out ahead of that table or list
C19_ReadingOrder ==
  (pc = "returned" /\ GoodArguments) =>
    LettersOfBlocks(st, st.conts[target + 1]) = SourceLetters(Soup(html))

\* the heap with instance 1 replaced by a new HtmlToDocx that has the
\* caller's settings
FreshInstance(heap) ==
  [heap EXCEPT !.engines[1] =
     [HtmlToDocx EXCEPT !.table_style = heap.engines[1].table_style,
                        !.paragraph_style = heap.engines[1].paragraph_style]]

\* the documents, cells and tables of two heaps, and the exception raised,
\* are the same
SameOutcome(h1, h2) ==
  /\ h1.conts = h2.conts
  /\ h1.ctype = h2.ctype
  /\ h1.tables = h2.tables
  /\ h1.err = h2.err

\* C20: conversions on one instance are independent: after any earlier calls
\* of parse_html_string, add_html_to_document and add_html_to_cell, a further
\* call produces exactly what the same call on a fresh instance produces;
\* no append target, current paragraph, run or list state carries over
C20_CallsIndependent ==
  (CallOver /\ ncalls >= 2) =>
    SameOutcome(st, Invoke(FreshInstance(before), entry, html, target))

\* a second call returned on an instance that an earlier call, on another
\* target, had left with a current paragraph
C20_Witness ==
  /\ pc = "returned" /\ ncalls = 2 /\ GoodArguments
  /\ before.engines[1].paragraph # <<>>
  /\ before.engines[1].doc # target
  /\ html = <<Para>>
  /\ before.engines[1].paragraph_style = None

=============================================================================
